---- MODULE Spec2Model ----
(***************************************************************************)
(* Model of src/src/toolkit/format.rs: the numeric display formatter       *)
(* (FloatFormatOptions::format_f64), the grouping inserter                 *)
(* (add_thousands_separators), the parser (parse_f64) and the round-trip   *)
(* search (format_with_decimals_in_range).                                 *)
(*                                                                         *)
(* Strings are sequences of characters; a character is a one-character     *)
(* TLA+ string, the non-ASCII glyphs being written by name.                *)
(*                                                                         *)
(* An f64 is a record [kind, neg, m, e, off]:                              *)
(*   kind  "nan", "inf" or "fin";                                          *)
(*   neg   the sign bit (so -0.0 is the finite value with m = 0, neg);     *)
(*   m, e  the decimal m * 10^e the float was written as (m has no         *)
(*         trailing zero, e = 0 when m = 0);                               *)
(*   off   the sign of (binary value - m * 10^e): 0 when the decimal is    *)
(*         exactly representable in binary, otherwise -1 or +1, both of    *)
(*         which the inputs contain.  It decides the direction of a        *)
(*         rounding that would be a tie on the decimal.                    *)
(* Digits are handled as sequences, so no 64-bit quantity is ever built as *)
(* a TLC integer.                                                          *)
(***************************************************************************)
EXTENDS Integers, Sequences, FiniteSets, TLC

VARIABLES pc, op, value, options, number, text, parsed,
          decimal_range, min_decimals, max_decimals, decimals, found

vars == <<pc, op, value, options, number, text, parsed,
          decimal_range, min_decimals, max_decimals, decimals, found>>

----------------------------------------------------------------------------
(* Characters *)

\* pub const MINUS: char = U+2212
MINUS == "MINUS"

\* pub const THIN_SPACE: char = U+2009
THIN_SPACE == "THIN_SPACE"

\* the body of an infinite value, U+221E
INFINITY_GLYPH == "INFINITY"

\* the glyph format_lat_lon appends, U+00B0
DEGREE == "DEGREE"

DigitChars == <<"0", "1", "2", "3", "4", "5", "6", "7", "8", "9">>

DigitChar(d) == DigitChars[d + 1]

IsDigitChar(c) == \E i \in 1..10 : DigitChars[i] = c

DigitValue(c) == (CHOOSE i \in 1..10 : DigitChars[i] = c) - 1

\* char::is_whitespace, on the characters the model uses
is_whitespace(c) == c \in {THIN_SPACE, " "}

----------------------------------------------------------------------------
(* Digit sequences *)

RECURSIVE Digits(_)
\* the decimal digits of a natural number, most significant first
Digits(n) == IF n < 10 THEN <<n>> ELSE Append(Digits(n \div 10), n % 10)

Zeros(n) == [i \in 1..n |-> 0]

AllZero(ds) == \A i \in 1..Len(ds) : ds[i] = 0

RECURSIVE Increment(_)
\* the digit sequence plus one in its last place; a carry out of the first
\* place lengthens it
Increment(ds) ==
    IF ds = <<>> THEN <<1>>
    ELSE IF ds[Len(ds)] < 9
         THEN SubSeq(ds, 1, Len(ds) - 1) \o <<ds[Len(ds)] + 1>>
         ELSE Increment(SubSeq(ds, 1, Len(ds) - 1)) \o <<0>>

DigitsToChars(ds) == [i \in 1..Len(ds) |-> DigitChar(ds[i])]

RECURSIVE Pow(_, _)
Pow(b, n) == IF n = 0 THEN 1 ELSE b * Pow(b, n - 1)

----------------------------------------------------------------------------
(* f64 values *)

NaN == [kind |-> "nan", neg |-> FALSE, m |-> 0, e |-> 0, off |-> 0]

Infinite(neg) == [kind |-> "inf", neg |-> neg, m |-> 0, e |-> 0, off |-> 0]

Finite(neg, m, e, off) == [kind |-> "fin", neg |-> neg, m |-> m, e |-> e, off |-> off]

\* m * 10^e is a binary fraction: 5^(-e) divides m
IsDyadic(m, e) ==
    \/ e >= 0
    \/ m = 0
    \/ /\ -e <= 13
       /\ m % Pow(5, -e) = 0

\* f64::is_nan
is_nan(v) == v.kind = "nan"

IsZero(v) == v.kind = "fin" /\ v.m = 0

\* value < 0.0: false for NaN and for both zeros
IsNegative(v) == v.kind # "nan" /\ v.neg /\ ~IsZero(v)

\* value >= 0.0: true for both zeros
IsNonNegative(v) == v.kind # "nan" /\ (~v.neg \/ IsZero(v))

\* value = -value: flips the sign bit
Negate(v) == [v EXCEPT !.neg = ~v.neg]

\* the digits of the integer part of |v|, at least one
IntegerDigits(v) ==
    LET D == Digits(v.m)
        k == Len(D)
    IN  IF v.m = 0 THEN <<0>>
        ELSE IF v.e >= 0 THEN D \o Zeros(v.e)
        ELSE IF k > -v.e THEN SubSeq(D, 1, k + v.e)
        ELSE <<0>>

\* the digits of the fractional part of |v|, none for an integer
FractionDigits(v) ==
    LET D == Digits(v.m)
        k == Len(D)
    IN  IF v.m = 0 \/ v.e >= 0 THEN <<>>
        ELSE IF k > -v.e THEN SubSeq(D, k + v.e + 1, k)
        ELSE Zeros(-v.e - k) \o D

\* |v| >= 1
AtLeastOne(v) == IntegerDigits(v) # <<0>>

\* |v| is exactly 10^k for some k >= 0
IsPowerOfTen(v) == v.m = 1 /\ v.e >= 0

----------------------------------------------------------------------------
(* The standard library's float-to-text conversions *)

\* whether the digits cut off behind the kept ones round the kept ones up:
\* the exact binary value is rounded, half to even when it lies exactly
\* half way
RoundsUp(kept, dropped, off) ==
    IF dropped = <<>> THEN FALSE
    ELSE LET rest == SubSeq(dropped, 2, Len(dropped))
         IN  IF dropped[1] > 5 THEN TRUE
             ELSE IF dropped[1] < 5 THEN FALSE
             ELSE IF ~AllZero(rest) THEN TRUE
             ELSE IF off > 0 THEN TRUE
             ELSE IF off < 0 THEN FALSE
             ELSE kept # <<>> /\ kept[Len(kept)] % 2 = 1

\* the digits of |v| rounded to n decimals: integer digits, then n
\* fractional digits
FixedDigits(v, n) ==
    LET ip == IntegerDigits(v)
        fp == FractionDigits(v)
        padded == IF Len(fp) >= n THEN fp ELSE fp \o Zeros(n - Len(fp))
        kept == ip \o SubSeq(padded, 1, n)
        dropped == SubSeq(padded, n + 1, Len(padded))
        all == IF RoundsUp(kept, dropped, v.off) THEN Increment(kept) ELSE kept
    IN  [int |-> SubSeq(all, 1, Len(all) - n),
         frac |-> SubSeq(all, Len(all) - n + 1, Len(all))]

\* format!("{value:.n$}"): fixed-point with exactly n decimals; the sign bit
\* prints as an ASCII hyphen, also on a zero
FormatFixed(v, n) ==
    LET d == FixedDigits(v, n)
    IN  (IF v.neg THEN <<"-">> ELSE <<>>)
        \o DigitsToChars(d.int)
        \o (IF n > 0 THEN <<".">> \o DigitsToChars(d.frac) ELSE <<>>)

\* format!("{:.*e}", n, value) for a value >= 1: one leading digit, n
\* fractional digits, the marker and the decimal exponent
FormatLowerExp(v, n) ==
    LET D == Digits(v.m)
        padded == IF Len(D) >= n + 1 THEN D ELSE D \o Zeros(n + 1 - Len(D))
        kept == SubSeq(padded, 1, n + 1)
        dropped == SubSeq(padded, n + 2, Len(padded))
        up == RoundsUp(kept, dropped, v.off)
        all == IF up THEN Increment(kept) ELSE kept
        carry == Len(all) > n + 1
        mant == SubSeq(all, 1, n + 1)
        exp == Len(D) + v.e - 1 + (IF carry THEN 1 ELSE 0)
    IN  (IF v.neg THEN <<"-">> ELSE <<>>)
        \o <<DigitChar(mant[1])>>
        \o (IF n > 0 THEN <<".">> \o DigitsToChars(SubSeq(mant, 2, n + 1)) ELSE <<>>)
        \o <<"e">>
        \o (IF exp < 0 THEN <<"-">> \o DigitsToChars(Digits(-exp))
                       ELSE DigitsToChars(Digits(exp)))

----------------------------------------------------------------------------
(* String helpers *)

ends_with(s, c) == s # <<>> /\ s[Len(s)] = c

pop(s) == SubSeq(s, 1, Len(s) - 1)

contains(s, c) == \E i \in 1..Len(s) : s[i] = c

\* str::find: the first position of c, 0 when there is none
find(s, c) == IF contains(s, c) THEN CHOOSE i \in 1..Len(s) : s[i] = c /\ \A j \in 1..(i - 1) : s[j] # c
              ELSE 0

\* fn reverse(s: &str) -> String
reverse(s) == [i \in 1..Len(s) |-> s[Len(s) + 1 - i]]

RECURSIVE TrimZeros(_)
\* while formatted.ends_with('0') { formatted.pop(); }
TrimZeros(s) == IF ends_with(s, "0") THEN TrimZeros(pop(s)) ELSE s

RECURSIVE GroupLoop(_, _)
\* the while loop of add_thousands_separators over the reversed characters
GroupLoop(chars, result) ==
    IF chars = <<>> THEN result
    ELSE LET pushed == IF result # <<>> THEN Append(result, THIN_SPACE) ELSE result
             n == IF Len(chars) < 3 THEN Len(chars) ELSE 3
         IN  GroupLoop(SubSeq(chars, n + 1, Len(chars)), pushed \o SubSeq(chars, 1, n))

\* add_thousands_separators without the two reversals: groups counted from
\* the first character
add_thousands_separators_from_front(s) == GroupLoop(s, <<>>)

\* fn add_thousands_separators(number: &str) -> String
add_thousands_separators(s) == reverse(GroupLoop(reverse(s), <<>>))

----------------------------------------------------------------------------
(* FloatFormatOptions *)

None == [some |-> FALSE, val |-> 0]

Some(n) == [some |-> TRUE, val |-> n]

FloatFormatOptions(always_sign, precision, num_decimals, strip, min_sep) ==
    [always_sign |-> always_sign,
     precision |-> precision,
     num_decimals |-> num_decimals,
     strip_trailing_zeros |-> strip,
     min_decimals_for_thousands_separators |-> min_sep]

DEFAULT_f16 == FloatFormatOptions(FALSE, 5, None, TRUE, 6)

DEFAULT_f32 == FloatFormatOptions(FALSE, 7, None, TRUE, 6)

DEFAULT_f64 == FloatFormatOptions(FALSE, 15, None, TRUE, 6)

with_always_sign(self, always_sign) == [self EXCEPT !.always_sign = always_sign]

with_precision(self, precision) == [self EXCEPT !.precision = precision]

with_decimals(self, num_decimals) == [self EXCEPT !.num_decimals = Some(num_decimals)]

with_strip_trailing_zeros(self, strip) == [self EXCEPT !.strip_trailing_zeros = strip]

----------------------------------------------------------------------------
(* FloatFormatOptions::format_f64 *)

\* the sign prefix, decided before the value is negated
SignPrefix(self, v) ==
    IF IsNegative(v) THEN <<MINUS>>
    ELSE IF self.always_sign THEN <<"+">>
    ELSE <<>>

\* the value after `if value < 0.0 { value = -value; }`
AbsValue(v) == IF IsNegative(v) THEN Negate(v) ELSE v

\* max_decimals < 0.0, with max_decimals = precision - log10(value).max(0.0):
\* log10(value) > precision.  For 10^k <= value < 10^(k+1) the logarithm is
\* k exactly at the power of ten and above k elsewhere; log10(0) is minus
\* infinity, which max(0.0) turns into 0.
UsesScientific(precision, v) ==
    LET k == Len(IntegerDigits(v)) - 1
    IN  /\ AtLeastOne(v)
        /\ IF IsPowerOfTen(v) THEN k > precision ELSE k >= precision

\* max_decimals taken from the number of integer digits alone
MaxDecimals_by_digit_count(precision, v) ==
    IF ~AtLeastOne(v) THEN precision
    ELSE precision - Len(IntegerDigits(v))

\* max_decimals as usize, when it is not negative
MaxDecimals(precision, v) ==
    LET k == Len(IntegerDigits(v)) - 1
    IN  IF ~AtLeastOne(v) THEN precision
        ELSE IF IsPowerOfTen(v) THEN precision - k
        ELSE precision - k - 1

\* the override taken as it is, without num_decimals.min(max_decimals)
EffectiveDecimals_override_wins(self, v) ==
    IF self.num_decimals.some THEN self.num_decimals.val
    ELSE MaxDecimals(self.precision, v)

\* num_decimals.min(max_decimals), or max_decimals without an override
EffectiveDecimals(self, v) ==
    LET max == MaxDecimals(self.precision, v)
    IN  IF self.num_decimals.some
        THEN (IF self.num_decimals.val < max THEN self.num_decimals.val ELSE max)
        ELSE max

\* the stripping without the test for a decimal point
StripTrailingZeros_no_point_test(self, formatted) ==
    IF self.strip_trailing_zeros
    THEN LET trimmed == TrimZeros(formatted)
         IN  IF ends_with(trimmed, ".") THEN pop(trimmed) ELSE trimmed
    ELSE formatted

\* if strip_trailing_zeros && formatted.contains('.') { ... }
StripTrailingZeros(self, formatted) ==
    IF self.strip_trailing_zeros /\ contains(formatted, ".")
    THEN LET trimmed == TrimZeros(formatted)
         IN  IF ends_with(trimmed, ".") THEN pop(trimmed) ELSE trimmed
    ELSE formatted

\* the grouping of both parts without the reversals of the fractional part
GroupParts_from_right(self, formatted) ==
    LET dot == find(formatted, ".")
        integer_part == SubSeq(formatted, 1, dot - 1)
        fractional_part == SubSeq(formatted, dot + 1, Len(formatted))
    IN  IF dot # 0
        THEN IF Len(fractional_part) < self.min_decimals_for_thousands_separators
             THEN add_thousands_separators(integer_part) \o <<".">> \o fractional_part
             ELSE add_thousands_separators(integer_part) \o <<".">>
                  \o add_thousands_separators(fractional_part)
        ELSE add_thousands_separators(formatted)

\* the split at the decimal point and the grouping of both parts
GroupParts(self, formatted) ==
    LET dot == find(formatted, ".")
        integer_part == SubSeq(formatted, 1, dot - 1)
        fractional_part == SubSeq(formatted, dot + 1, Len(formatted))
    IN  IF dot # 0
        THEN IF Len(fractional_part) < self.min_decimals_for_thousands_separators
             THEN add_thousands_separators(integer_part) \o <<".">> \o fractional_part
             ELSE add_thousands_separators(integer_part) \o <<".">>
                  \o reverse(add_thousands_separators(reverse(fractional_part)))
        ELSE add_thousands_separators(formatted)

\* precision.saturating_sub(1)
SaturatingSub1(n) == IF n > 0 THEN n - 1 ELSE 0

\* the else branch of `if value == f64::INFINITY`
FiniteBody(self, v) ==
    IF UsesScientific(self.precision, v)
    THEN FormatLowerExp(v, SaturatingSub1(self.precision))
    ELSE GroupParts(self, StripTrailingZeros(self, FormatFixed(v, EffectiveDecimals(self, v))))

\* abs_string without the test for infinity
AbsString_no_infinity(self, v) == FiniteBody(self, v)

\* abs_string
AbsString(self, v) ==
    IF v.kind = "inf" /\ ~v.neg THEN <<INFINITY_GLYPH>> ELSE FiniteBody(self, v)

\* format_f64 with the NaN test after the sign is chosen
format_f64_sign_before_nan(self, v) ==
    SignPrefix(self, v) \o (IF is_nan(v) THEN <<"N", "a", "N">> ELSE AbsString(self, AbsValue(v)))

\* fn format_f64(&self, mut value: f64) -> String
format_f64(self, v) ==
    IF is_nan(v) THEN <<"N", "a", "N">>
    ELSE SignPrefix(self, v) \o AbsString(self, AbsValue(v))

\* pub fn format(&self, value: impl Into<f64>) -> String
format(self, v) == format_f64(self, v)

\* pub fn format_lat_lon(value: f64) -> String
format_lat_lon(v) ==
    Append(format_f64(FloatFormatOptions(TRUE, 10, Some(6), FALSE, 10), v), DEGREE)

----------------------------------------------------------------------------
(* parse_f64 *)

RECURSIVE TrimStart(_)
TrimStart(s) == IF s # <<>> /\ is_whitespace(s[1]) THEN TrimStart(SubSeq(s, 2, Len(s))) ELSE s

\* the normalization with str::trim in place of the filter: only leading and
\* trailing whitespace goes
strip_whitespace_and_normalize_trim(s) ==
    LET kept == reverse(TrimStart(reverse(TrimStart(s))))
    IN  [i \in 1..Len(kept) |-> IF kept[i] = MINUS THEN "-" ELSE kept[i]]

\* pub fn strip_whitespace_and_normalize(text: &str) -> String
strip_whitespace_and_normalize(s) ==
    LET kept == SelectSeq(s, LAMBDA c : ~is_whitespace(c))
    IN  [i \in 1..Len(kept) |-> IF kept[i] = MINUS THEN "-" ELSE kept[i]]

\* the result of a failed conversion
NoValue == [some |-> FALSE, kind |-> "nan", neg |-> FALSE, m |-> 0, e |-> 0]

SomeValue(kind, neg, m, e) == [some |-> TRUE, kind |-> kind, neg |-> neg, m |-> m, e |-> e]

AllDigitChars(s) == \A i \in 1..Len(s) : IsDigitChar(s[i])

CharsToDigits(s) == [i \in 1..Len(s) |-> DigitValue(s[i])]

RECURSIVE DropLeadingZeros(_)
DropLeadingZeros(ds) ==
    IF ds # <<>> /\ ds[1] = 0 THEN DropLeadingZeros(SubSeq(ds, 2, Len(ds))) ELSE ds

RECURSIVE DropTrailingZeros(_)
DropTrailingZeros(ds) ==
    IF ds # <<>> /\ ds[Len(ds)] = 0 THEN DropTrailingZeros(SubSeq(ds, 1, Len(ds) - 1)) ELSE ds

RECURSIVE NatOfDigits(_)
NatOfDigits(ds) ==
    IF ds = <<>> THEN 0 ELSE 10 * NatOfDigits(SubSeq(ds, 1, Len(ds) - 1)) + ds[Len(ds)]

\* ASCII lower case, on the letters the model uses
ToLower(c) ==
    IF c = "N" THEN "n" ELSE IF c = "A" THEN "a" ELSE IF c = "I" THEN "i"
    ELSE IF c = "F" THEN "f" ELSE IF c = "E" THEN "e" ELSE c

LowerCase(s) == [i \in 1..Len(s) |-> ToLower(s[i])]

\* the decimal int.frac * 10^exp as a value with no trailing zero in m
DecimalOf(neg, int, frac, exp) ==
    LET all == DropLeadingZeros(int \o frac)
        sig == DropTrailingZeros(all)
    IN  IF sig = <<>> THEN SomeValue("fin", neg, 0, 0)
        ELSE SomeValue("fin", neg, NatOfDigits(sig), exp - Len(frac) + (Len(all) - Len(sig)))

\* a Number without the exponent part: digits with at most one point
ParseNumber_no_exponent(neg, s) ==
    LET dot == find(s, ".")
        int == IF dot = 0 THEN s ELSE SubSeq(s, 1, dot - 1)
        frac == IF dot = 0 THEN <<>> ELSE SubSeq(s, dot + 1, Len(s))
    IN  IF AllDigitChars(int) /\ AllDigitChars(frac) /\ Len(int) + Len(frac) > 0
        THEN DecimalOf(neg, CharsToDigits(int), CharsToDigits(frac), 0)
        ELSE NoValue

\* the Number of the grammar of <f64 as FromStr>: digits with at most one
\* point and at least one digit, then an optional exponent
ParseNumber(neg, s) ==
    LET low == LowerCase(s)
        epos == find(low, "e")
        mant == IF epos = 0 THEN s ELSE SubSeq(s, 1, epos - 1)
        expo == IF epos = 0 THEN <<>> ELSE SubSeq(s, epos + 1, Len(s))
        eneg == expo # <<>> /\ expo[1] = "-"
        edig == IF expo # <<>> /\ expo[1] \in {"+", "-"} THEN SubSeq(expo, 2, Len(expo)) ELSE expo
        dot == find(mant, ".")
        int == IF dot = 0 THEN mant ELSE SubSeq(mant, 1, dot - 1)
        frac == IF dot = 0 THEN <<>> ELSE SubSeq(mant, dot + 1, Len(mant))
        eval == NatOfDigits(CharsToDigits(edig))
    IN  IF /\ AllDigitChars(int)
           /\ AllDigitChars(frac)
           /\ Len(int) + Len(frac) > 0
           /\ (epos # 0 => (edig # <<>> /\ AllDigitChars(edig)))
        THEN DecimalOf(neg, CharsToDigits(int), CharsToDigits(frac),
                       IF eneg THEN -eval ELSE eval)
        ELSE NoValue

\* <f64 as FromStr>::from_str(s).ok(): an optional sign, then "inf",
\* "infinity" or "nan" in any case, or a Number
FromStr(s) ==
    LET signed == s # <<>> /\ s[1] \in {"+", "-"}
        neg == s # <<>> /\ s[1] = "-"
        rest == IF signed THEN SubSeq(s, 2, Len(s)) ELSE s
        low == LowerCase(rest)
    IN  IF low = <<"n", "a", "n">> THEN SomeValue("nan", neg, 0, 0)
        ELSE IF low \in {<<"i", "n", "f">>, <<"i", "n", "f", "i", "n", "i", "t", "y">>}
        THEN SomeValue("inf", neg, 0, 0)
        ELSE ParseNumber(neg, rest)

\* pub fn parse_f64(text: &str) -> Option<f64>
parse_f64(s) == FromStr(strip_whitespace_and_normalize(s))

----------------------------------------------------------------------------
(* egui::emath::almost_equal on values narrowed to f32 *)

\* `as f32`: a magnitude of 10^39 or more becomes infinite.  The rounding of
\* the mantissa to 24 bits, a relative change of at most 2^-24, is below
\* the resolution of this model and is left out; the tolerance it feeds is
\* 2^-19.
as_f32(v) ==
    IF v.kind = "fin" /\ v.m # 0 /\ Len(Digits(v.m)) + v.e > 39
    THEN [kind |-> "inf", neg |-> v.neg, m |-> 0, e |-> 0]
    ELSE [kind |-> v.kind, neg |-> v.neg, m |-> v.m, e |-> v.e]

\* the digits of 16.0 * f32::EPSILON = 2^-19 = 1.9073486328125e-6
EpsilonDigits == <<1, 9, 0, 7, 3, 4, 8, 6, 3, 2, 8, 1, 2, 5>>

\* 2^19
EpsilonInverse == 524288

\* M * 10^(-n) <= epsilon, for a natural M
AtMostEpsilon(M, n) ==
    IF M = 0 THEN TRUE
    ELSE IF n <= 5 THEN FALSE
    ELSE IF n >= 16 THEN TRUE
    ELSE M <= NatOfDigits(SubSeq(EpsilonDigits, 1, n - 5))

\* a == b on floats: NaN equals nothing, the two zeros are equal
FloatEq(a, b) ==
    /\ a.kind # "nan"
    /\ b.kind # "nan"
    /\ a.kind = b.kind
    /\ a.m = b.m
    /\ a.e = b.e
    /\ (a.neg = b.neg \/ (a.kind = "fin" /\ a.m = 0))

\* almost_equal with the difference compared to epsilon directly instead of
\* relative to the larger magnitude
almost_equal_absolute(a, b) ==
    IF FloatEq(a, b) THEN TRUE
    ELSE IF a.kind # "fin" \/ b.kind # "fin" THEN FALSE
    ELSE LET E == IF a.m = 0 THEN b.e ELSE IF b.m = 0 THEN a.e
                  ELSE IF a.e < b.e THEN a.e ELSE b.e
             A == IF a.m = 0 THEN 0 ELSE a.m * Pow(10, a.e - E)
             B == IF b.m = 0 THEN 0 ELSE b.m * Pow(10, b.e - E)
             SA == IF a.neg THEN -A ELSE A
             SB == IF b.neg THEN -B ELSE B
         IN  AtMostEpsilon(IF SA >= SB THEN SA - SB ELSE SB - SA, -E)

\* pub fn almost_equal(a: f32, b: f32, epsilon: f32) -> bool, with
\* epsilon = 16.0 * f32::EPSILON:
\*   a == b || abs_max <= epsilon || (a - b).abs() / abs_max <= epsilon
\* where abs_max = a.abs().max(b.abs()) and f32::max ignores a NaN operand.
\* The finite case is computed on integers in units of 10^E, E the smaller
\* exponent.
almost_equal(a, b) ==
    IF FloatEq(a, b) THEN TRUE
    ELSE IF a.kind = "nan" /\ b.kind = "nan" THEN FALSE
    ELSE IF a.kind = "nan" THEN b.kind = "fin" /\ AtMostEpsilon(b.m, -b.e)
    ELSE IF b.kind = "nan" THEN a.kind = "fin" /\ AtMostEpsilon(a.m, -a.e)
    ELSE IF a.kind = "inf" \/ b.kind = "inf" THEN FALSE
    ELSE LET E == IF a.m = 0 THEN b.e ELSE IF b.m = 0 THEN a.e
                  ELSE IF a.e < b.e THEN a.e ELSE b.e
             A == IF a.m = 0 THEN 0 ELSE a.m * Pow(10, a.e - E)
             B == IF b.m = 0 THEN 0 ELSE b.m * Pow(10, b.e - E)
             SA == IF a.neg THEN -A ELSE A
             SB == IF b.neg THEN -B ELSE B
             diff == IF SA >= SB THEN SA - SB ELSE SB - SA
             abs_max == IF A >= B THEN A ELSE B
         IN  \/ AtMostEpsilon(abs_max, -E)
             \/ diff <= abs_max \div EpsilonInverse

----------------------------------------------------------------------------
(* format_with_decimals_in_range *)

\* fn format_with_decimals(value: f64, decimals: usize) -> String
format_with_decimals(v, n) ==
    format(with_strip_trailing_zeros(with_decimals(DEFAULT_f64, n), FALSE), v)

\* the range end taken as it is, without the clamp
at_most_unclamped(a, limit) == a

\* egui::NumExt::at_most
at_most(a, limit) == IF a < limit THEN a ELSE limit

\* the condition of the loop body without its almost_equal conjunct
RoundTrips_parse_only(v, t) == parse_f64(t).some

\* the condition of the `if let` in the loop body, for the candidate text
RoundTrips(v, t) ==
    LET p == parse_f64(t)
    IN  p.some /\ almost_equal(as_f32(p), as_f32(v))

----------------------------------------------------------------------------
(* Inputs *)

\* mantissas 0..MaxMantissa are combined with every exponent below
MaxMantissa == 12

\* the smallest decimal exponent of those values is -MaxScale
MaxScale == 6

\* and the largest is MaxExponent
MaxExponent == 3

\* the longest digit string given to add_thousands_separators
MaxGroupLen == 7

RECURSIVE Normalize(_, _)
\* the pair <<m, e>> without a trailing zero in m
Normalize(m, e) ==
    IF m = 0 THEN <<0, 0>>
    ELSE IF m % 10 = 0 THEN Normalize(m \div 10, e + 1)
    ELSE <<m, e>>

\* values the claims name, and values at the edges of the precision budgets
Probes ==
    { <<200004, -11>>, <<333333333, -9>>, <<999996, -5>>, <<99996, -4>>,
      <<1234567, 0>>, <<1234567, -1>>, <<1234567, -7>>, <<1234567, 10>>,
      <<1, 4>>, <<1, 5>>, <<1, 6>>, <<1, 14>>, <<1, 15>>, <<1, 16>>,
      <<12, 14>>, <<12, 15>>, <<5, -1>>, <<25, -1>>, <<125, -3>> }

Decimals ==
    { Normalize(m, e) : m \in 0..MaxMantissa, e \in (-MaxScale)..MaxExponent } \cup Probes

Offsets(d) == IF IsDyadic(d[1], d[2]) THEN {0} ELSE {-1, 1}

FiniteValues ==
    UNION { { Finite(neg, d[1], d[2], off) : neg \in BOOLEAN, off \in Offsets(d) } : d \in Decimals }

FloatValues == FiniteValues \cup {NaN, Infinite(FALSE), Infinite(TRUE)}

Precisions == {2, 5, 7, 15, 17}

NumDecimals == {None, Some(0), Some(3), Some(17)}

SeparatorThresholds == {2, 6, 10}

OptionsSet ==
    { FloatFormatOptions(a, p, d, z, t) :
        a \in BOOLEAN, p \in Precisions, d \in NumDecimals,
        z \in BOOLEAN, t \in SeparatorThresholds }

RangeEnds == {0, 1, 3, 10, 16, 18}

\* decimal_range, with debug_assert!(min_decimals <= max_decimals) and
\* debug_assert!(max_decimals < 100)
DecimalRanges == { r \in RangeEnds \X RangeEnds : r[1] <= r[2] /\ r[2] < 100 }

RECURSIVE StringsOver(_, _)
\* the strings over an alphabet of length at most n
StringsOver(alphabet, n) ==
    IF n = 0 THEN {<<>>}
    ELSE LET shorter == StringsOver(alphabet, n - 1)
         IN  shorter \cup { Append(t, c) : t \in shorter, c \in alphabet }

DigitStrings ==
    StringsOver({"0", "7"}, MaxGroupLen)
    \cup { SubSeq(DigitChars, 2, k) : k \in 1..10 }

\* the longest text built from TextAlphabet
MaxTextLen == 4

TextAlphabet == {"1", ".", THIN_SPACE, MINUS, "a", "e"}

ParseTexts ==
    StringsOver(TextAlphabet, MaxTextLen)
    \cup { <<"1", THIN_SPACE, "2", "3", "4", ".", "5">>, <<MINUS, "5">>, <<"a", "b", "c">>,
           <<>>, <<THIN_SPACE>>, <<" ", THIN_SPACE, " ">>, <<"1", ".", "2", ".", "3">>,
           <<" ", "5", " ">>, <<"-", "5">>, <<"+", "5">>, <<"+", "-", "0">>,
           <<"N", "a", "N">>, <<"i", "n", "f">>, <<INFINITY_GLYPH>>,
           <<"1", ".", "2", "e", "1", "6">>, <<"1", "e", "-", "2">> }

----------------------------------------------------------------------------
(* State *)

NoRange == <<0, 0>>

Init ==
    /\ pc = "idle"
    /\ op = "none"
    /\ value = Finite(FALSE, 0, 0, 0)
    /\ options = DEFAULT_f64
    /\ number = <<>>
    /\ text = <<>>
    /\ parsed = NoValue
    /\ decimal_range = NoRange
    /\ min_decimals = 0
    /\ max_decimals = 0
    /\ decimals = 0
    /\ found = FALSE

Idle == pc = "idle"

ResetSearch ==
    /\ decimal_range' = NoRange
    /\ min_decimals' = 0
    /\ max_decimals' = 0
    /\ decimals' = 0
    /\ found' = FALSE

\* a call of FloatFormatOptions::format
FormatCall ==
    /\ Idle
    /\ \E v \in FloatValues, o \in OptionsSet :
        /\ value' = v
        /\ options' = o
        /\ text' = format(o, v)
    /\ op' = "format"
    /\ number' = <<>>
    /\ parsed' = NoValue
    /\ ResetSearch
    /\ pc' = "done"

\* a call of format_lat_lon
FormatLatLonCall ==
    /\ Idle
    /\ \E v \in FloatValues :
        /\ value' = v
        /\ text' = format_lat_lon(v)
    /\ op' = "format_lat_lon"
    /\ options' = FloatFormatOptions(TRUE, 10, Some(6), FALSE, 10)
    /\ number' = <<>>
    /\ parsed' = NoValue
    /\ ResetSearch
    /\ pc' = "done"

\* a call of add_thousands_separators
GroupCall ==
    /\ Idle
    /\ \E s \in DigitStrings :
        /\ number' = s
        /\ text' = add_thousands_separators(s)
    /\ op' = "add_thousands_separators"
    /\ value' = Finite(FALSE, 0, 0, 0)
    /\ options' = DEFAULT_f64
    /\ parsed' = NoValue
    /\ ResetSearch
    /\ pc' = "done"

\* a call of parse_f64
ParseCall ==
    /\ Idle
    /\ \E s \in ParseTexts :
        /\ number' = s
        /\ parsed' = parse_f64(s)
    /\ op' = "parse_f64"
    /\ text' = <<>>
    /\ value' = Finite(FALSE, 0, 0, 0)
    /\ options' = DEFAULT_f64
    /\ ResetSearch
    /\ pc' = "done"

\* format_with_decimals_in_range, lines 14-23: the clamping of the range
SearchCall ==
    /\ Idle
    /\ \E v \in FloatValues, r \in DecimalRanges :
        LET max == at_most(r[2], 16)
            min == at_most(r[1], max)
        IN  /\ value' = v
            /\ decimal_range' = r
            /\ max_decimals' = max
            /\ min_decimals' = min
            /\ decimals' = min
            /\ pc' = IF min < max THEN "scan" ELSE "fallback"
    /\ op' = "none"
    /\ options' = DEFAULT_f64
    /\ number' = <<>>
    /\ text' = <<>>
    /\ parsed' = NoValue
    /\ found' = FALSE

\* one iteration of `for decimals in min_decimals..max_decimals`
SearchScan ==
    /\ pc = "scan"
    /\ LET candidate == format_with_decimals(value, decimals)
       IN  /\ options' = with_strip_trailing_zeros(with_decimals(DEFAULT_f64, decimals), FALSE)
           /\ parsed' = parse_f64(candidate)
           /\ IF RoundTrips(value, candidate)
              THEN /\ text' = candidate
                   /\ found' = TRUE
                   /\ op' = "format_with_decimals_in_range"
                   /\ pc' = "done"
                   /\ UNCHANGED decimals
              ELSE /\ decimals' = decimals + 1
                   /\ pc' = IF decimals + 1 < max_decimals THEN "scan" ELSE "fallback"
                   /\ UNCHANGED <<text, found, op>>
    /\ UNCHANGED <<value, number, decimal_range, min_decimals, max_decimals>>

\* line 41: format_with_decimals(value, max_decimals)
SearchFallback ==
    /\ pc = "fallback"
    /\ text' = format_with_decimals(value, max_decimals)
    /\ options' = with_strip_trailing_zeros(with_decimals(DEFAULT_f64, max_decimals), FALSE)
    /\ op' = "format_with_decimals_in_range"
    /\ pc' = "done"
    /\ UNCHANGED <<value, number, parsed, decimal_range, min_decimals, max_decimals,
                   decimals, found>>

\* the caller takes the result; the next call starts from fresh arguments
Return ==
    /\ pc = "done"
    /\ pc' = "idle"
    /\ op' = "none"
    /\ value' = Finite(FALSE, 0, 0, 0)
    /\ options' = DEFAULT_f64
    /\ number' = <<>>
    /\ text' = <<>>
    /\ parsed' = NoValue
    /\ ResetSearch

NextFormat == FormatCall \/ Return

NextSearch == SearchCall \/ SearchScan \/ SearchFallback \/ Return

NextGroup == GroupCall \/ Return

NextParse == ParseCall \/ Return

NextLatLon == FormatLatLonCall \/ Return

Next ==
    \/ FormatCall
    \/ FormatLatLonCall
    \/ GroupCall
    \/ ParseCall
    \/ SearchCall
    \/ SearchScan
    \/ SearchFallback
    \/ Return

Spec == Init /\ [][Next]_vars

SpecFormat == Init /\ [][NextFormat]_vars

SpecSearch == Init /\ [][NextSearch]_vars

SpecGroup == Init /\ [][NextGroup]_vars

SpecParse == Init /\ [][NextParse]_vars

SpecLatLon == Init /\ [][NextLatLon]_vars

----------------------------------------------------------------------------
(* Vocabulary of the properties *)

Done(name) == pc = "done" /\ op = name

Searched == Done("format_with_decimals_in_range")

Formatted == Done("format")

Grouped == Done("add_thousands_separators")

\* the tolerance as the claims state it, on two finite decimals x and y:
\* they are equal, or both magnitudes are at most 2^-19, or
\* |x - y| / max(|x|, |y|) <= 2^-19
Tolerated(x, y) ==
    LET E == IF x.m = 0 THEN y.e ELSE IF y.m = 0 THEN x.e
             ELSE IF x.e < y.e THEN x.e ELSE y.e
        X == IF x.m = 0 THEN 0 ELSE x.m * Pow(10, x.e - E)
        Y == IF y.m = 0 THEN 0 ELSE y.m * Pow(10, y.e - E)
        SX == IF x.neg THEN -X ELSE X
        SY == IF y.neg THEN -Y ELSE Y
        diff == IF SX >= SY THEN SX - SY ELSE SY - SX
        larger == IF X >= Y THEN X ELSE Y
    IN  \/ SX = SY
        \/ AtMostEpsilon(X, -E) /\ AtMostEpsilon(Y, -E)
        \/ diff <= larger \div EpsilonInverse

\* the text parses to a finite value within that tolerance of the finite v
WithinTolerance(v, t) ==
    /\ parse_f64(t).some
    /\ parse_f64(t).kind = "fin"
    /\ Tolerated(parse_f64(t), v)

\* 2 * |a - b| <= 10^(-d), on finite values
WithinHalfUnit(a, b, d) ==
    LET lo == IF a.e < b.e THEN a.e ELSE b.e
        E == IF lo < -d THEN lo ELSE -d
        A == a.m * Pow(10, (IF a.m = 0 THEN 0 ELSE a.e - E))
        B == b.m * Pow(10, (IF b.m = 0 THEN 0 ELSE b.e - E))
        SA == IF a.neg THEN -A ELSE A
        SB == IF b.neg THEN -B ELSE B
        diff == IF SA >= SB THEN SA - SB ELSE SB - SA
    IN  2 * diff <= Pow(10, -d - E)

SetMin(S) == CHOOSE x \in S : \A y \in S : x <= y

\* 1/3, written to nine digits
OneThird == Finite(FALSE, 333333333, -9, 1)

----------------------------------------------------------------------------
(* C1 *)

\* C1 as stated: for every finite x >= 0 the result of the search over 0..=10
\* parses to a value within the tolerance of x, also after the fallback
C1_RoundTripAlways ==
    (Searched /\ decimal_range = <<0, 10>> /\ value.kind = "fin" /\ IsNonNegative(value))
        => WithinTolerance(value, text)

\* C1 as amended: for every finite x >= 0 the result of the search over 0..=10
\* parses to a value; the value is within the tolerance of x when the scan
\* found a candidate, and within half a unit of the tenth decimal of x when
\* the search fell back to the 10-decimal rendering
C1_RoundTripWhenFound ==
    (Searched /\ decimal_range = <<0, 10>> /\ value.kind = "fin" /\ IsNonNegative(value))
        => /\ parse_f64(text).some
           /\ found => WithinTolerance(value, text)
           /\ ~found => /\ parse_f64(text).kind = "fin"
                        /\ WithinHalfUnit(parse_f64(text), value, 10)

\* the search over 0..=10 fell back for a value above the tolerance, and the
\* 10-decimal rendering parses to a value outside the tolerance
C1_Witness ==
    /\ Searched
    /\ decimal_range = <<0, 10>>
    /\ value.kind = "fin"
    /\ IsNonNegative(value)
    /\ ~found
    /\ parse_f64(text).some
    /\ ~WithinTolerance(value, text)

----------------------------------------------------------------------------
(* C2 *)

\* the decimal counts of the range [lo, hi) whose rendering round-trips
RoundTripping(v, lo, hi) ==
    { d \in lo..(hi - 1) : WithinTolerance(v, format_with_decimals(v, d)) }

\* C2: for every finite value and range min < max <= 16, when some decimal
\* count in [min, max) round-trips the search returns the rendering of the
\* smallest such count; for 1/3 over 1..=10 the result is shorter than the
\* 10-decimal rendering and round-trips
C2_Minimality ==
    (Searched /\ value.kind = "fin" /\ decimal_range[1] < decimal_range[2]
              /\ decimal_range[2] <= 16)
        => LET S == RoundTripping(value, decimal_range[1], decimal_range[2])
           IN  /\ S # {} => text = format_with_decimals(value, SetMin(S))
               /\ (value = OneThird /\ decimal_range = <<1, 10>>)
                    => /\ Len(text) < Len(format_with_decimals(value, 10))
                       /\ WithinTolerance(value, text)

\* the search for 1/3 over 1..=10 returned a candidate after rejecting
\* shorter ones
C2_Witness ==
    /\ Searched
    /\ value = OneThird
    /\ decimal_range = <<1, 10>>
    /\ found
    /\ decimals > min_decimals
    /\ text = format_with_decimals(value, decimals)

----------------------------------------------------------------------------
(* C3 *)

\* the rendering is in scientific notation
IsScientific(t) == contains(t, "e")

\* the digit characters of a rendering
DigitCount(t) == Len(SelectSeq(t, IsDigitChar))

\* the digit characters behind the decimal point
FractionDigitCount(t) ==
    IF find(t, ".") = 0 THEN 0
    ELSE DigitCount(SubSeq(t, find(t, ".") + 1, Len(t)))

\* C3: for every finite value with |value| >= 1 rendered in fixed-point
\* notation without a decimal override, the output has at most `precision`
\* digit characters
C3_DigitBudget ==
    (Formatted /\ value.kind = "fin" /\ AtLeastOne(value)
               /\ ~options.num_decimals.some /\ ~IsScientific(text))
        => DigitCount(text) <= options.precision

----------------------------------------------------------------------------
(* C4 *)

\* a rendering without its sign prefix
Body(t) == IF t # <<>> /\ t[1] \in {MINUS, "+"} THEN SubSeq(t, 2, Len(t)) ELSE t

\* one leading digit, a point, n fractional digits, the marker, the exponent
MantissaShape(b, n) ==
    /\ Len(b) >= n + 4
    /\ IsDigitChar(b[1])
    /\ b[2] = "."
    /\ \A i \in 3..(n + 2) : IsDigitChar(b[i])
    /\ b[n + 3] = "e"
    /\ \A i \in (n + 4)..Len(b) : IsDigitChar(b[i])

\* C4: for every finite value the body is in scientific notation exactly
\* when the integer part of |value| has more digits than `precision`, and
\* then it is a mantissa of one digit and precision - 1 fractional digits,
\* the marker and the exponent, without separators
C4_ScientificExactly ==
    (Formatted /\ value.kind = "fin")
        => /\ IsScientific(text)
                <=> (AtLeastOne(value) /\ Len(IntegerDigits(value)) > options.precision)
           /\ IsScientific(text) => MantissaShape(Body(text), options.precision - 1)

----------------------------------------------------------------------------
(* C5 *)

\* C5 as stated: in fixed-point notation format renders at most 16
\* fractional digits, whatever the precision and the decimal override
C5_AtMost16 ==
    (Formatted /\ value.kind = "fin" /\ ~IsScientific(text))
        => FractionDigitCount(text) <= 16

\* C5 as amended: in fixed-point notation format renders at most `precision`
\* fractional digits and at most the decimal override when one is set, so
\* at most 16 when the precision or the override is at most 16
C5_AtMostPrecision ==
    (Formatted /\ value.kind = "fin" /\ ~IsScientific(text))
        => /\ FractionDigitCount(text) <= options.precision
           /\ options.num_decimals.some => FractionDigitCount(text) <= options.num_decimals.val
           /\ (options.precision <= 16 \/ (options.num_decimals.some /\ options.num_decimals.val <= 16))
                => FractionDigitCount(text) <= 16

\* a fixed-point rendering with more than 16 fractional digits, under a
\* precision above 16
C5_Witness ==
    /\ Formatted
    /\ value.kind = "fin"
    /\ ~IsScientific(text)
    /\ options.precision > 16
    /\ FractionDigitCount(text) > 16

----------------------------------------------------------------------------
(* C6 *)

\* C6: format(-v) is the minus glyph followed by format(v) without
\* always_sign, for v > 0 finite or infinite; for a non-NaN v >= 0 the
\* output starts with '+' under always_sign and has no sign prefix otherwise;
\* -1234567.0 under the 64-bit preset is the minus glyph and 1 234 567
C6_SignPrefix ==
    (Formatted /\ ~is_nan(value))
        => /\ IsNegative(value)
                => text = <<MINUS>> \o format(with_always_sign(options, FALSE), Negate(value))
           /\ IsNonNegative(value)
                => /\ text # <<>>
                   /\ IF options.always_sign THEN text[1] = "+"
                      ELSE text[1] \notin {"+", "-", MINUS}
           /\ (value = Finite(TRUE, 1234567, 0, 0) /\ options = DEFAULT_f64)
                => text = <<MINUS, "1", THIN_SPACE, "2", "3", "4", THIN_SPACE, "5", "6", "7">>

----------------------------------------------------------------------------
(* C7 *)

\* C7: without always_sign, format(-0.0) contains neither the minus glyph nor
\* the ASCII hyphen and equals format(+0.0)
C7_NegativeZeroUnsigned ==
    (Formatted /\ value = Finite(TRUE, 0, 0, 0) /\ ~options.always_sign)
        => /\ ~contains(text, MINUS)
           /\ ~contains(text, "-")
           /\ text = format(options, Finite(FALSE, 0, 0, 0))

----------------------------------------------------------------------------
(* C8 *)

\* C8: for every options value format(NaN) is exactly "NaN"
C8_NaN == (Formatted /\ is_nan(value)) => text = <<"N", "a", "N">>

\* NaN was formatted under always_sign, stripping off and a decimal override
C8_Witness ==
    /\ Formatted
    /\ is_nan(value)
    /\ options.always_sign
    /\ options.num_decimals.some
    /\ ~options.strip_trailing_zeros
    /\ Len(text) = 3

----------------------------------------------------------------------------
(* C9 *)

\* C9: format(+infinity) is the infinity glyph, preceded by '+' exactly under
\* always_sign; format(-infinity) is the minus glyph and the infinity glyph
C9_Infinity ==
    (Formatted /\ value.kind = "inf")
        => text = (IF value.neg THEN <<MINUS>>
                   ELSE IF options.always_sign THEN <<"+">> ELSE <<>>)
                  \o <<INFINITY_GLYPH>>

\* minus infinity was formatted under always_sign
C9_Witness ==
    /\ Formatted
    /\ value = Infinite(TRUE)
    /\ options.always_sign
    /\ text = <<MINUS, INFINITY_GLYPH>>

----------------------------------------------------------------------------
(* C10 *)

\* C10: the output of add_thousands_separators is the input with a separator
\* before every group of 3 characters counted from the right: every fourth
\* character from the right is a separator and no other is, the first
\* character is not a separator, deleting the separators gives the input
\* back, and up to 3 characters are returned unchanged
C10_Grouping ==
    Grouped
        => /\ SelectSeq(text, LAMBDA c : c # THIN_SPACE) = number
           /\ \A i \in 1..Len(text) : (text[Len(text) + 1 - i] = THIN_SPACE) <=> (i % 4 = 0)
           /\ text # <<>> => (text[1] # THIN_SPACE /\ text[Len(text)] # THIN_SPACE)
           /\ Len(number) <= 3 => text = number
           /\ number = <<"1", "2", "3", "4", "5", "6", "7">>
                => text = <<"1", THIN_SPACE, "2", "3", "4", THIN_SPACE, "5", "6", "7">>

\* "1234567" was grouped into three groups
C10_Witness ==
    /\ Grouped
    /\ number = <<"1", "2", "3", "4", "5", "6", "7">>
    /\ Len(text) = 9

----------------------------------------------------------------------------
(* Vocabulary of the fixed-point properties *)

\* |v| <= 10^j
AtMostPow10(v, j) ==
    \/ ~AtLeastOne(v)
    \/ Len(IntegerDigits(v)) <= j
    \/ (IsPowerOfTen(v) /\ v.e = j)

\* floor(precision - max(log10 |v|, 0)) where it is not negative: the
\* largest n with |v| <= 10^(precision - n)
FloorBudget(precision, v) ==
    SetMin({ n \in 0..precision : \A k \in (n + 1)..precision : ~AtMostPow10(v, precision - k) })

\* min(override, max_decimals) under an override, else max_decimals
StatedDecimals(o, v) ==
    IF o.num_decimals.some /\ o.num_decimals.val < FloorBudget(o.precision, v)
    THEN o.num_decimals.val
    ELSE FloorBudget(o.precision, v)

\* |v|
Magnitude(v) == [v EXCEPT !.neg = FALSE]

\* a rendering without signs and separators
DigitsAndPoint(t) == SelectSeq(t, LAMBDA c : IsDigitChar(c) \/ c = ".")

\* |v| rendered with exactly n decimals, before stripping and grouping
Unstripped(v, n) == FormatFixed(Magnitude(v), n)

IsPrefix(a, b) == Len(a) <= Len(b) /\ a = SubSeq(b, 1, Len(a))

FixedPoint == Formatted /\ value.kind = "fin" /\ ~IsScientific(text)

----------------------------------------------------------------------------
(* C11 *)

\* C11: under strip_trailing_zeros a fixed-point rendering with a decimal
\* point loses exactly its trailing fractional zeros and a then bare point,
\* a rendering without a decimal point loses nothing, and without
\* strip_trailing_zeros no digit is removed; 0.1 under precision 2 with
\* stripping is "0.1"
C11_Stripping ==
    FixedPoint
        => LET full == Unstripped(value, StatedDecimals(options, value))
               out == DigitsAndPoint(text)
               cut == SubSeq(full, Len(out) + 1, Len(full))
           IN  /\ IsPrefix(out, full)
               /\ ~options.strip_trailing_zeros => out = full
               /\ ~contains(full, ".") => out = full
               /\ (options.strip_trailing_zeros /\ contains(full, "."))
                    => /\ ~ends_with(out, ".")
                       /\ contains(out, ".") => ~ends_with(out, "0")
                       /\ contains(out, ".") => \A i \in 1..Len(cut) : cut[i] = "0"
                       /\ ~contains(out, ".")
                            => /\ cut[1] = "."
                               /\ \A i \in 2..Len(cut) : cut[i] = "0"
               /\ (value = Finite(FALSE, 1, -1, 1) /\ options.precision = 2
                     /\ ~options.num_decimals.some /\ options.strip_trailing_zeros
                     /\ ~options.always_sign)
                    => text = <<"0", ".", "1">>

\* 0.1 was formatted under precision 2 with stripping, and a zero was removed
C11_Witness ==
    /\ FixedPoint
    /\ value = Finite(FALSE, 1, -1, 1)
    /\ options.precision = 2
    /\ ~options.num_decimals.some
    /\ options.strip_trailing_zeros
    /\ text = <<"0", ".", "1">>
    /\ Unstripped(value, StatedDecimals(options, value)) = <<"0", ".", "1", "0">>

----------------------------------------------------------------------------
(* C12 *)

Parsed == Done("parse_f64")

RECURSIVE Normalized(_)
\* a text without its whitespace characters and with every minus glyph
\* replaced by the ASCII hyphen
Normalized(s) ==
    IF s = <<>> THEN <<>>
    ELSE (IF s[1] \in {THIN_SPACE, " "} THEN <<>>
          ELSE IF s[1] = MINUS THEN <<"-">>
          ELSE <<s[1]>>)
         \o Normalized(SubSeq(s, 2, Len(s)))

Count(s, c) == Cardinality({ i \in 1..Len(s) : s[i] = c })

\* C12: parse_f64 is the standard conversion of the text without its
\* whitespace and with U+2212 replaced by '-'; an empty or all-whitespace
\* text, "abc" and a text with two decimal points give no value;
\* parse("1" sep "234.5") = 1234.5 and parse(U+2212 "5") = -5.0
C12_Parser ==
    Parsed
        => /\ parsed = FromStr(Normalized(number))
           /\ (\A i \in 1..Len(number) : number[i] \in {THIN_SPACE, " "}) => ~parsed.some
           /\ number = <<"a", "b", "c">> => ~parsed.some
           /\ Count(number, ".") >= 2 => ~parsed.some
           /\ number = <<"1", THIN_SPACE, "2", "3", "4", ".", "5">>
                => parsed = SomeValue("fin", FALSE, 12345, -1)
           /\ number = <<MINUS, "5">> => parsed = SomeValue("fin", TRUE, 5, 0)

\* a text with an interior separator and a minus glyph was parsed to a value
C12_Witness ==
    /\ Parsed
    /\ number = <<MINUS, "1", THIN_SPACE, "1">>
    /\ parsed = SomeValue("fin", TRUE, 11, 0)

----------------------------------------------------------------------------
(* C13 *)

\* 2 * |a - b| <= 10^j, on finite values; equal decimals are not scaled, and
\* a unit of 10^10 or more of the common scale exceeds every difference
WithinHalfOfPow10(a, b, j) ==
    IF a.m = b.m /\ a.e = b.e THEN a.neg = b.neg \/ a.m = 0
    ELSE LET E == IF a.m = 0 THEN b.e ELSE IF b.m = 0 THEN a.e
                  ELSE IF a.e < b.e THEN a.e ELSE b.e
             A == IF a.m = 0 THEN 0 ELSE a.m * Pow(10, a.e - E)
             B == IF b.m = 0 THEN 0 ELSE b.m * Pow(10, b.e - E)
             SA == IF a.neg THEN -A ELSE A
             SB == IF b.neg THEN -B ELSE B
             diff == IF SA >= SB THEN SA - SB ELSE SB - SA
         IN  j >= E /\ (j - E >= 10 \/ diff <= Pow(10, j - E) \div 2)

----------------------------------------------------------------------------
(* C14 *)

\* C14: for every finite value format_lat_lon gives a sign glyph ('+' for a
\* value >= 0, U+2212 for a value < 0), the grouped integer digits, a
\* decimal point, exactly 6 fractional digits without separators and the
\* degree glyph
C14_LatLon ==
    (Done("format_lat_lon") /\ value.kind = "fin")
        => LET n == Len(text)
               dot == find(text, ".")
               int == SubSeq(text, 2, dot - 1)
           IN  /\ n >= 10
               /\ text[1] = (IF IsNegative(value) THEN MINUS ELSE "+")
               /\ text[n] = DEGREE
               /\ dot = n - 7
               /\ \A i \in (dot + 1)..(n - 1) : IsDigitChar(text[i])
               /\ int # <<>>
               /\ \A i \in 1..Len(int) :
                    IF i % 4 = 0 THEN int[Len(int) + 1 - i] = THIN_SPACE
                    ELSE IsDigitChar(int[Len(int) + 1 - i])

----------------------------------------------------------------------------
(* C15 *)

----------------------------------------------------------------------------
(* C16 *)

\* the part of a rendering before the decimal point, without the sign prefix
IntegerPart(t) ==
    IF find(Body(t), ".") = 0 THEN Body(t)
    ELSE SubSeq(Body(t), 1, find(Body(t), ".") - 1)

\* the part of a rendering behind the decimal point
FractionalPart(t) ==
    IF find(t, ".") = 0 THEN <<>> ELSE SubSeq(t, find(t, ".") + 1, Len(t))

\* separators at every fourth position from the right and nowhere else
GroupedFromRight(s) ==
    /\ s # <<>>
    /\ Len(s) % 4 # 0
    /\ \A i \in 1..Len(s) : (s[Len(s) + 1 - i] = THIN_SPACE) <=> (i % 4 = 0)

\* separators at every fourth position from the left and nowhere else, and
\* none at the end
GroupedFromLeft(s) ==
    /\ s # <<>>
    /\ Len(s) % 4 # 0
    /\ \A i \in 1..Len(s) : (s[i] = THIN_SPACE) <=> (i % 4 = 0)

\* what C16 says apart from when the fractional part has separators: the
\* integer part is grouped from the right, the digits are those of the
\* ungrouped rendering, a fractional part shorter than the threshold is
\* unchanged and a longer one is grouped from the left
GroupingShape ==
    LET frac == FractionalPart(text)
        threshold == options.min_decimals_for_thousands_separators
        full == Unstripped(value, StatedDecimals(options, value))
    IN  /\ GroupedFromRight(IntegerPart(text))
        /\ IF options.strip_trailing_zeros
           THEN IsPrefix(DigitsAndPoint(text), full)
           ELSE DigitsAndPoint(text) = full
        /\ frac # <<>>
             => IF DigitCount(frac) < threshold
                THEN \A i \in 1..Len(frac) : IsDigitChar(frac[i])
                ELSE GroupedFromLeft(frac)
        /\ SelectSeq(frac, IsDigitChar) = <<"1", "2", "3", "4", "5", "6", "7">>
             => (IF threshold <= 7
                 THEN frac = <<"1", "2", "3", THIN_SPACE, "4", "5", "6", THIN_SPACE, "7">>
                 ELSE frac = <<"1", "2", "3", "4", "5", "6", "7">>)

\* C16 as stated: in fixed-point output the integer part is grouped from the
\* right, and the fractional part contains separators if and only if its
\* length is at least min_decimals_for_thousands_separators, and is then
\* grouped from the left; a shorter one is unchanged
C16_SeparatorsFromThreshold ==
    FixedPoint
        => /\ GroupingShape
           /\ FractionalPart(text) # <<>>
                => (contains(FractionalPart(text), THIN_SPACE)
                      <=> DigitCount(FractionalPart(text))
                            >= options.min_decimals_for_thousands_separators)

\* C16 as amended: as stated, except that the fractional part contains
\* separators if and only if its length is at least the threshold and more
\* than 3
C16_SeparatorsFromThresholdAndFour ==
    FixedPoint
        => /\ GroupingShape
           /\ FractionalPart(text) # <<>>
                => (contains(FractionalPart(text), THIN_SPACE)
                      <=> /\ DigitCount(FractionalPart(text))
                               >= options.min_decimals_for_thousands_separators
                          /\ DigitCount(FractionalPart(text)) > 3)

\* 0.1234567 was formatted under a threshold of 6 and its fractional part
\* was grouped from the left
C16_Witness ==
    /\ FixedPoint
    /\ value = Finite(FALSE, 1234567, -7, 1)
    /\ options.min_decimals_for_thousands_separators = 6
    /\ text = <<"0", ".", "1", "2", "3", THIN_SPACE, "4", "5", "6", THIN_SPACE, "7">>

----------------------------------------------------------------------------
(* C17 *)

\* a search is under way or has returned
InSearch == pc \in {"scan", "fallback"} \/ Searched

\* the clamped range as the claim states it
ClampedMax == IF decimal_range[2] <= 16 THEN decimal_range[2] ELSE 16

ClampedMin == IF decimal_range[1] <= ClampedMax THEN decimal_range[1] ELSE ClampedMax

\* the state of a search: the clamped range, the candidate within it, at most
\* 16 candidates tried, and the result of the fallback
SearchState ==
    InSearch
        => /\ max_decimals = ClampedMax
           /\ min_decimals = ClampedMin
           /\ min_decimals <= max_decimals
           /\ max_decimals <= 16
           /\ min_decimals <= decimals
           /\ decimals <= max_decimals
           /\ pc = "scan" => decimals < max_decimals
           /\ pc = "fallback" => decimals = max_decimals
           /\ decimals - min_decimals + (IF found THEN 1 ELSE 0) <= 16
           /\ (Searched /\ found) => decimals < max_decimals
           /\ (Searched /\ min_decimals = max_decimals) => ~found
           /\ (Searched /\ ~found)
                => text = format(FloatFormatOptions(FALSE, 15, Some(ClampedMax), FALSE, 6),
                                 value)

\* a step of the scan returns the candidate or goes on to the next count,
\* which brings the candidate closer to the clamped maximum it never exceeds;
\* the step of the fallback returns
SearchStep ==
    /\ pc = "scan"
         => \/ pc' = "done" /\ found' /\ decimals' = decimals
            \/ /\ decimals' = decimals + 1
               /\ max_decimals' = max_decimals
               /\ max_decimals' - decimals' < max_decimals - decimals
               /\ max_decimals' - decimals' >= 0
               /\ ~found'
               /\ pc' = (IF decimals' < ClampedMax THEN "scan" ELSE "fallback")
    /\ pc = "fallback" => pc' = "done" /\ ~found'

\* C17: the search works with max' = min(max, 16) and min' = min(min, max'),
\* tries the counts min', ..., max' - 1 in ascending order, at most 16 of
\* them, always terminates (every step returns or moves the candidate one
\* closer to max'), and when no candidate round-trips or min' = max' returns
\* the 64-bit preset's rendering with override max' and no stripping
C17_ClampAndFallback == []SearchState /\ [][SearchStep]_vars

\* a search over 18..=18 was clamped to 16..=16 and fell back
C17_Witness ==
    /\ Searched
    /\ value = OneThird
    /\ decimal_range = <<18, 18>>
    /\ max_decimals = 16
    /\ min_decimals = 16
    /\ ~found
    /\ text = format_with_decimals(value, 16)

----------------------------------------------------------------------------
(* C18 *)

\* C18: for every options value and every finite value that format renders
\* in fixed-point notation, parse_f64 of the output returns a value, finite,
\* with the sign of the formatted value, equal to it rounded to the
\* effective decimal count
C18_ParseInvertsFixed ==
    FixedPoint
        => /\ parse_f64(text).some
           /\ parse_f64(text).kind = "fin"
           /\ parse_f64(text).neg = value.neg
           /\ WithinHalfOfPow10(parse_f64(text), value, -StatedDecimals(options, value))

----------------------------------------------------------------------------
(* C19 *)

\* the digit characters between the decimal point and the exponent marker,
\* or the end of the rendering
MantissaFractionDigitCount(t) ==
    LET mantissa == IF find(t, "e") = 0 THEN t ELSE SubSeq(t, 1, find(t, "e") - 1)
    IN  FractionDigitCount(mantissa)

\* C19: for every finite value and every range min <= max <= 16 the result
\* of the search has at least min and at most max fractional digits,
\* separators not counted
C19_DecimalsInRange ==
    (Searched /\ value.kind = "fin" /\ decimal_range[2] <= 16)
        => /\ decimal_range[1] <= MantissaFractionDigitCount(text)
           /\ MantissaFractionDigitCount(text) <= decimal_range[2]

====
